---- MODULE Spec2Model ----
(***************************************************************************)
(* Request authentication and reward ledger of the SHIB Ads WebApp         *)
(* backend (api/index.js and its later revisions).                         *)
(*                                                                         *)
(* Three revisions of the endpoint are modelled over one data store:       *)
(*   "tg"    - src/unnamed/part_000 lines 665-1211, Telegram initData HMAC *)
(*   "hash"  - src/unnamed/part_001, SHA256(user_id:type:SECRET_KEY)       *)
(*   "plain" - src/api/index.js lines 1-431, no credential (withdraw only) *)
(* The revision that is deployed is fixed in the initial state.            *)
(*                                                                         *)
(* Every call of supabaseFetch is one atomic step at the data store; the   *)
(* code between two awaits runs with the step that precedes it.  Texts     *)
(* (JSON, query strings, digests) are sequences of tokens, so that parsing *)
(* and string conversion are computed and can disagree.  Balances are      *)
(* counted in units of 1/RATE_DEN SHIB, which makes the 0.05 commission    *)
(* exact.                                                                  *)
(***************************************************************************)
EXTENDS Integers, Sequences, FiniteSets, TLC

\* ---------------------------------------------------------------- bounds
MaxUser == 2          \* account ids 1..MaxUser
MaxRequests == 2      \* requests served in one behaviour
Now == 200000         \* Date.now() / 1000
RandomSteps == 10     \* Math.random() takes the values n / RandomSteps

\* ------------------------------------------------------ program constants
REWARD_PER_AD == 3
RATE_NUM == 5         \* REFERRAL_COMMISSION_RATE = 0.05 = RATE_NUM / RATE_DEN
RATE_DEN == 100
DAILY_MAX == 100
DAILY_MAX_SPINS == 15
MIN_WITHDRAW_AMOUNT == 400
MAX_AGE == 86400
DAILY_MAX_ADS == 100

SPIN_SECTORS == <<5, 10, 15, 20, 5>>

\* calculateRandomSpinPrize, for Math.random() = n / RandomSteps:
\* Math.floor(Math.random() * SPIN_SECTORS.length) and the sector at that
\* (0-based) index.
Randoms == 0..(RandomSteps - 1)
RandomIndex_Zero(n) == 0
RandomIndex(n) == (n * Len(SPIN_SECTORS)) \div RandomSteps
calculateRandomSpinPrize(n) == SPIN_SECTORS[RandomIndex(n) + 1]

UserIds == 1..MaxUser
NaN == 0              \* parseInt of a text that is not a number
Null == 0             \* ref_by: null

\* Units of balance: one SHIB is RATE_DEN units.
Units(shib) == shib * RATE_DEN

\* ------------------------------------------------------------------ texts
\* Decimal rendering of the small numbers that occur as ids.
DecStr == <<"1", "2", "3", "4", "5", "6", "7", "8", "9">>

\* String(n) for a number n.
NumToText(n) == IF n \in DOMAIN DecStr THEN <<DecStr[n]>> ELSE <<"NaN">>

\* parseInt(text)
parseInt(t) ==
    IF Len(t) = 1 /\ \E n \in DOMAIN DecStr : DecStr[n] = t[1]
    THEN CHOOSE n \in DOMAIN DecStr : DecStr[n] = t[1]
    ELSE NaN

\* Number(text) for the auth_date texts that occur.
StaleDate == <<"100000">>
FreshDate == <<"199990">>
NumberOf(t) == IF t = StaleDate THEN 100000
               ELSE IF t = FreshDate THEN Now - 10
               ELSE 0

\* JSON texts of the user field.
UserJson(i) == <<"{", "id", ":", DecStr[i], "}">>
EmptyObjJson == <<"{", "}">>
BadJson == <<"{">>
NullJson == <<"null">>
ToStringJson == <<"{", "toString", ":", "1", "}">>
NumJson(i) == <<DecStr[i]>>

\* JSON.parse: t is "throws", "object", "number" or "null"; id is the id
\* property of an object (NaN when it has none); str says whether the value
\* can be converted to a string (an object with an own, non-callable
\* toString and the inherited valueOf cannot).
Parsed(t, id, str) == [t |-> t, id |-> id, str |-> str]
JSONparse(text) ==
    IF \E i \in DOMAIN DecStr : text = UserJson(i)
      THEN Parsed("object", CHOOSE i \in DOMAIN DecStr : text = UserJson(i), TRUE)
    ELSE IF text = EmptyObjJson THEN Parsed("object", NaN, TRUE)
    ELSE IF text = ToStringJson THEN Parsed("object", NaN, FALSE)
    ELSE IF text = NullJson THEN Parsed("null", NaN, TRUE)
    ELSE IF \E i \in DOMAIN DecStr : text = NumJson(i)
      THEN Parsed("number", CHOOSE i \in DOMAIN DecStr : text = NumJson(i), TRUE)
    ELSE Parsed("throws", NaN, TRUE)

\* `${v}` for a parsed JSON value.
ValueToText(v) ==
    IF v.t = "object" THEN <<"[object Object]">>
    ELSE IF v.t = "null" THEN <<"null">>
    ELSE NumToText(v.id)

\* String(v.id) of securityPreCheck: a number has no id property.
IdToText(v) ==
    IF v.t = "object" /\ v.id # NaN THEN NumToText(v.id) ELSE <<"undefined">>

\* crypto.createHmac('sha256', key).update(msg).digest(): injective.
HMAC(key, msg) == <<"hmac(">> \o key \o <<",">> \o msg \o <<")">>

\* crypto.createHash('sha256').update(msg).digest('hex'): injective.
SHA256(msg) == <<"sha256(">> \o msg \o <<")">>

\* ------------------------------------------------- Telegram initData (tg)
\* Array.prototype.sort() on the keys: code-unit order.
KeyRank(k) == IF k = "auth_date" THEN 1 ELSE IF k = "hash" THEN 2 ELSE 3

RECURSIVE SortKeys(_)
SortKeys(S) ==
    IF S = {} THEN <<>>
    ELSE LET m == CHOOSE k \in S : \A j \in S : KeyRank(k) <= KeyRank(j)
         IN  <<m>> \o SortKeys(S \ {m})

\* new URLSearchParams(initData) copied into data: initData is the sequence
\* of <<key, value>> pairs as received, a repeated key keeps its last value.
URLSearchParams(initData) ==
    LET ks == {initData[i][1] : i \in DOMAIN initData}
        last(k) == CHOOSE i \in DOMAIN initData :
                      /\ initData[i][1] = k
                      /\ \A j \in DOMAIN initData : initData[j][1] = k => j <= i
    IN  [k \in ks |-> initData[last(k)][2]]

Field(data, k) == IF k \in DOMAIN data THEN data[k] ELSE <<>>

RECURSIVE JoinLines(_)
JoinLines(ls) ==
    IF ls = <<>> THEN <<>>
    ELSE IF Len(ls) = 1 THEN ls[1]
    ELSE ls[1] \o <<"\n">> \o JoinLines(Tail(ls))

\* The data-check string of checkSignature.  data is the object that
\* validateInitData passes: the received fields, with data.user already
\* replaced by the parsed value user.
DataCheckString(data, user) ==
    LET ks == SortKeys(DOMAIN data \ {"hash"})
        line(k) == <<k, "=">> \o (IF k = "user" THEN ValueToText(user) ELSE data[k])
    IN  JoinLines([i \in DOMAIN ks |-> line(ks[i])])

Secret(token) == HMAC(<<"WebAppData">>, <<token>>)

\* checkSignature: hmac === hash.
checkSignature(data, user, token) ==
    HMAC(Secret(token), DataCheckString(data, user)) = Field(data, "hash")

\* Date.now() / 1000 - data.auth_date > 86400 (line 815).
Expired(data) ==
    /\ Field(data, "auth_date") # <<>>
    /\ Now - NumberOf(Field(data, "auth_date")) > MAX_AGE

\* validateInitData: res is "false", "throws" (the template literal of
\* checkSignature cannot convert data.user) or "data"; user is data.user.
\* The body of the expiry test is commented out in the source, so Expired
\* selects between two equal continuations.
Validated(res, user) == [res |-> res, user |-> user]
NoUser == Parsed("null", NaN, TRUE)
validateInitData(initData, token) ==
    LET data == URLSearchParams(initData)
        user == JSONparse(Field(data, "user"))
        rest == IF ~user.str THEN Validated("throws", NoUser)
                ELSE IF ~checkSignature(data, user, token) THEN Validated("false", NoUser)
                ELSE Validated("data", user)
    IN  IF token = "" THEN Validated("false", NoUser)
        ELSE IF Field(data, "hash") = <<>> THEN Validated("false", NoUser)
        ELSE IF Field(data, "user") = <<>> THEN Validated("false", NoUser)
        ELSE IF user.t = "throws" THEN Validated("false", NoUser)
        ELSE IF Expired(data) THEN rest
        ELSE rest

\* String(validatedData.user.id) === String(user_id), with the test for a
\* null user (line 852).
IdMatches_Always(user, user_id) == TRUE
IdMatches(user, user_id) == user.t # "null" /\ IdToText(user) = user_id

\* securityPreCheck: the response it sends (status 0: none) and the
\* validated user.  st = 0 /\ ~threw means the request is authenticated.
PreCheck(st, err, threw, user) == [st |-> st, err |-> err, threw |-> threw, user |-> user]
securityPreCheck_DefaultStatus(init_data, user_id, token) ==
    LET v == validateInitData(init_data, token)
    IN  IF init_data = <<>>
          THEN PreCheck(400, "Missing Telegram WebApp initialization data for security check.", FALSE, NoUser)
        ELSE IF user_id = <<>>
          THEN PreCheck(400, "Missing user_id in request body.", FALSE, NoUser)
        ELSE IF v.res = "throws" THEN PreCheck(0, "", TRUE, NoUser)
        ELSE IF v.res = "false"
          THEN PreCheck(400, "Security validation failed. Request rejected.", FALSE, NoUser)
        ELSE IF ~IdMatches(v.user, user_id)
          THEN PreCheck(400, "User ID mismatch. Security check failed.", FALSE, NoUser)
        ELSE PreCheck(0, "", FALSE, v.user)
securityPreCheck(init_data, user_id, token) ==
    LET v == validateInitData(init_data, token)
    IN  IF init_data = <<>>
          THEN PreCheck(403, "Missing Telegram WebApp initialization data for security check.", FALSE, NoUser)
        ELSE IF user_id = <<>>
          THEN PreCheck(403, "Missing user_id in request body.", FALSE, NoUser)
        ELSE IF v.res = "throws" THEN PreCheck(0, "", TRUE, NoUser)
        ELSE IF v.res = "false"
          THEN PreCheck(403, "Security validation failed. Request rejected.", FALSE, NoUser)
        ELSE IF ~IdMatches(v.user, user_id)
          THEN PreCheck(403, "User ID mismatch. Security check failed.", FALSE, NoUser)
        ELSE PreCheck(0, "", FALSE, v.user)

\* --------------------------------------------------- hash signature (hash)
SECRET_KEY == "your-very-secret-key-replace-me"

\* verifySignature(user_id, type, signature)
verifySignature(user_id, type, signature) ==
    /\ signature # <<>>
    /\ SHA256(user_id \o <<":", type, ":", SECRET_KEY>>) = signature

\* ------------------------------------------------------------------ state
VARIABLES
    variant,      \* "tg", "hash" or "plain": the revision that is deployed
    BOT_TOKEN,    \* process.env.BOT_TOKEN, "" when not configured
    users,        \* table users: id -> row, for the ids that have a row
    withdrawals,  \* table withdrawals, in insertion order
    history,      \* tables ads_history, spin_requests, spin_results, commission_history
    req,          \* the invocations of the endpoint, one per slot
    served,       \* number of requests started
    credited,     \* history: total amount credited to each id
    users0,       \* history: the table users of the initial state
    counterDay,   \* history: UTC day on which the counters of users0 were written
    last_update   \* user_stats.last_update of each row, as a UTC date

vars == <<variant, BOT_TOKEN, users, withdrawals, history, req, served, credited, users0,
          counterDay, last_update>>

Slots == {1, 2}

Row(b, a, s, ref) ==
    [balance |-> b, ads_watched_today |-> a, spins_today |-> s, ref_by |-> ref]
NoRow == Row(0, 0, 0, Null)

\* The number a body carries - amount of a withdraw, a reward or prize field
\* otherwise: num is typeof amount === 'number', v its value in units.
Amount(num, v) == [num |-> num, v |-> v]
NoAmount == Amount(FALSE, 0)

IdleReq ==
    [pc |-> "idle", type |-> "", user_id |-> <<>>, init_data |-> <<>>,
     signature |-> <<>>, ref_by |-> <<>>, amount |-> NoAmount,
     id |-> NaN, user |-> NoRow, newBalance |-> 0, newCount |-> 0, newRefBalance |-> 0,
     prize |-> 0,
     status |-> 0, error |-> "", reads |-> 0, writes |-> 0,
     alone |-> TRUE, pre |-> NoRow, method |-> "POST", body |-> "object"]

\* The calculator of the commission: reward * REFERRAL_COMMISSION_RATE.
Reward == Units(REWARD_PER_AD)
Commission == (Units(REWARD_PER_AD) * RATE_NUM) \div RATE_DEN

\* ----------------------------------------------------------- responses
\* sendError(res, message, statusCode) after a store call that was issued:
\* k GETs and w writes more.
sendErrorAfter(r, st, msg, k, w) ==
    req' = [req EXCEPT ![r].pc = "done", ![r].status = st, ![r].error = msg,
                       ![r].reads = @ + k, ![r].writes = @ + w]

\* sendSuccess(res, data) after a store call.
sendSuccessAfter(r, k, w) ==
    req' = [req EXCEPT ![r].pc = "done", ![r].status = 200,
                       ![r].reads = @ + k, ![r].writes = @ + w]

\* supabaseFetch('users', 'PATCH', fields, `?id=eq.${id}`): the rows that
\* match are updated, none when the id has no row.
PatchBalance_NoFilter(id, b) == [i \in DOMAIN users |-> [users[i] EXCEPT !.balance = b]]
PatchBalance(id, b) ==
    IF id \in DOMAIN users THEN [users EXCEPT ![id].balance = b] ELSE users

\* supabaseFetch('users', 'GET', null, `?id=eq.${id}&select=...`): the array
\* of the rows that match.
SelectUser_Phantom(id) == IF id \in DOMAIN users THEN <<users[id]>> ELSE <<NoRow>>
SelectUser(id) == IF id \in DOMAIN users THEN <<users[id]>> ELSE <<>>

Credit(id, amt) ==
    IF id \in DOMAIN users /\ id \in UserIds
    THEN [credited EXCEPT ![id] = @ + amt] ELSE credited

\* A Date by its getUTCFullYear(), getUTCMonth() and getUTCDate(); NowDate is
\* new Date() of the requests.
UTCDate(y, m, d) == [year |-> y, month |-> m, date |-> d]
NowDate == UTCDate(1970, 0, 3)
StoredDates == {NowDate, UTCDate(1970, 0, 2), UTCDate(1969, 11, 3), UTCDate(1969, 0, 3)}
Stamp(id) == [i \in DOMAIN last_update \cup {id} |->
                IF i = id THEN NowDate ELSE last_update[i]]

FrameS == UNCHANGED <<variant, BOT_TOKEN, served, users0, counterDay>>
Frame == FrameS /\ UNCHANGED last_update
StoreSame == UNCHANGED <<users, withdrawals, history, credited>>

\* ------------------------------------------------ tg: handleWatchAd (946)
\* user.ads_watched_today >= DAILY_MAX (line 964)
AdLimitReached_Strict(user) == user.ads_watched_today > DAILY_MAX
AdLimitReached(user) == user.ads_watched_today >= DAILY_MAX

WatchAdGet(r) ==
    /\ variant = "tg" /\ req[r].pc = "wa_get"
    /\ Frame /\ StoreSame
    /\ \E ok \in BOOLEAN :
         LET id == req[r].id IN
         IF ~ok THEN sendErrorAfter(r, 500, "WatchAd failed", 1, 0)
         ELSE IF id \notin DOMAIN users THEN sendErrorAfter(r, 404, "User not found.", 1, 0)
         ELSE IF AdLimitReached(users[id])
           THEN req' = [req EXCEPT ![r].pc = "done", ![r].status = 403,
                                   ![r].error = "Daily ad limit (100) reached.",
                                   ![r].user = users[id], ![r].reads = @ + 1]
         ELSE req' = [req EXCEPT ![r].pc = "wa_patch", ![r].user = users[id],
                                 ![r].newBalance = users[id].balance + Reward,
                                 ![r].newCount = users[id].ads_watched_today + 1,
                                 ![r].reads = @ + 1]

\* supabaseFetch('users', 'PATCH', { balance, ads_watched_today },
\* `?id=eq.${id}`) (line 973)
PatchAd_NoFilter(id, b, n) ==
    [i \in DOMAIN users |-> [users[i] EXCEPT !.balance = b, !.ads_watched_today = n]]
PatchAd(id, b, n) ==
    IF id \in DOMAIN users
    THEN [users EXCEPT ![id].balance = b, ![id].ads_watched_today = n]
    ELSE users

WatchAdPatch(r) ==
    /\ variant = "tg" /\ req[r].pc = "wa_patch"
    /\ Frame /\ UNCHANGED <<withdrawals, history>>
    /\ \E ok \in BOOLEAN :
         LET id == req[r].id IN
         IF ~ok THEN /\ sendErrorAfter(r, 500, "WatchAd failed", 0, 1)
                     /\ UNCHANGED <<users, credited>>
         ELSE /\ users' = PatchAd(id, req[r].newBalance, req[r].newCount)
              /\ credited' = Credit(id, Reward)
              /\ IF req[r].user.ref_by # Null
                 THEN req' = [req EXCEPT ![r].pc = "wa_refget", ![r].writes = @ + 1]
                 ELSE sendSuccessAfter(r, 0, 1)

WatchAdRefGet(r) ==
    /\ variant = "tg" /\ req[r].pc = "wa_refget"
    /\ Frame /\ StoreSame
    /\ \E ok \in BOOLEAN :
         LET referrers == SelectUser(req[r].user.ref_by) IN
         IF ~ok THEN sendErrorAfter(r, 500, "WatchAd failed", 1, 0)
         ELSE IF Len(referrers) = 0 THEN sendSuccessAfter(r, 1, 0)
         ELSE req' = [req EXCEPT ![r].pc = "wa_refpatch", ![r].reads = @ + 1,
                                 ![r].newRefBalance = referrers[1].balance + Commission]

WatchAdRefPatch(r) ==
    /\ variant = "tg" /\ req[r].pc = "wa_refpatch"
    /\ Frame /\ UNCHANGED <<withdrawals, history>>
    /\ \E ok \in BOOLEAN :
         LET ref == req[r].user.ref_by IN
         IF ~ok THEN /\ sendErrorAfter(r, 500, "WatchAd failed", 0, 1)
                     /\ UNCHANGED <<users, credited>>
         ELSE /\ users' = PatchBalance(ref, req[r].newRefBalance)
              /\ credited' = Credit(ref, Commission)
              /\ sendSuccessAfter(r, 0, 1)

\* --------------------------------------------------- tg: handleSpin (1015)
\* user.spins_today >= DAILY_MAX_SPINS (line 1032)
SpinLimitReached_Strict(user) == user.spins_today > DAILY_MAX_SPINS
SpinLimitReached(user) == user.spins_today >= DAILY_MAX_SPINS

SpinGet(r) ==
    /\ variant = "tg" /\ req[r].pc = "sp_get"
    /\ Frame /\ StoreSame
    /\ \E ok \in BOOLEAN :
         LET id == req[r].id IN
         IF ~ok THEN sendErrorAfter(r, 500, "Spin request failed", 1, 0)
         ELSE IF id \notin DOMAIN users THEN sendErrorAfter(r, 404, "User not found.", 1, 0)
         ELSE IF SpinLimitReached(users[id])
           THEN req' = [req EXCEPT ![r].pc = "done", ![r].status = 403,
                                   ![r].error = "Daily spin limit (15) reached.",
                                   ![r].user = users[id], ![r].reads = @ + 1]
         ELSE req' = [req EXCEPT ![r].pc = "sp_patch", ![r].user = users[id],
                                 ![r].newCount = users[id].spins_today + 1,
                                 ![r].reads = @ + 1]

SpinPatch(r) ==
    /\ variant = "tg" /\ req[r].pc = "sp_patch"
    /\ Frame /\ UNCHANGED <<withdrawals, history, credited>>
    /\ \E ok \in BOOLEAN :
         LET id == req[r].id IN
         IF ~ok THEN /\ sendErrorAfter(r, 500, "Spin request failed", 0, 1)
                     /\ UNCHANGED users
         ELSE /\ users' = IF id \in DOMAIN users
                          THEN [users EXCEPT ![id].spins_today = req[r].newCount]
                          ELSE users
              /\ sendSuccessAfter(r, 0, 1)

\* --------------------------------------------- tg: handleSpinResult (1059)
\* The prize is drawn before the fetch.  After the fetch the test
\* !ArrayOf(users) names a function that is defined nowhere: it throws a
\* ReferenceError inside the try block, whatever the fetch returned, and
\* the catch answers 500.
SpinResultGet(r) ==
    /\ variant = "tg" /\ req[r].pc = "sr_get"
    /\ Frame /\ StoreSame
    /\ \E ok \in BOOLEAN :
         IF ~ok THEN sendErrorAfter(r, 500, "Spin result failed", 1, 0)
         ELSE sendErrorAfter(r, 500, "Spin result failed: ArrayOf is not defined", 1, 0)

\* ----------------------------------------------- tg: handleWithdraw (1098)
\* amount < MIN_WITHDRAW_AMOUNT (line 1119)
BelowMinimum_Never(amount) == FALSE
BelowMinimum(amount) == amount < Units(MIN_WITHDRAW_AMOUNT)

\* amount > currentBalance (line 1122)
InsufficientBalance_Never(amount, currentBalance) == FALSE
InsufficientBalance(amount, currentBalance) == amount > currentBalance

WithdrawGet(r) ==
    /\ variant = "tg" /\ req[r].pc = "wd_get"
    /\ Frame /\ StoreSame
    /\ \E ok \in BOOLEAN :
         LET id == req[r].id
             amount == req[r].amount.v IN
         IF ~ok THEN sendErrorAfter(r, 500, "Withdrawal failed", 1, 0)
         ELSE IF id \notin DOMAIN users THEN sendErrorAfter(r, 404, "User not found.", 1, 0)
         ELSE IF BelowMinimum(amount)
           THEN req' = [req EXCEPT ![r].pc = "done", ![r].status = 403,
                                   ![r].error = "Minimum withdrawal is 400 SHIB.",
                                   ![r].user = users[id], ![r].reads = @ + 1]
         ELSE IF InsufficientBalance(amount, users[id].balance)
           THEN req' = [req EXCEPT ![r].pc = "done", ![r].status = 403,
                                   ![r].error = "Insufficient balance.",
                                   ![r].user = users[id], ![r].reads = @ + 1]
         ELSE req' = [req EXCEPT ![r].pc = "wd_patch", ![r].user = users[id],
                                 ![r].newBalance = users[id].balance - amount,
                                 ![r].reads = @ + 1]

WithdrawPatch(r) ==
    /\ variant = "tg" /\ req[r].pc = "wd_patch"
    /\ Frame /\ UNCHANGED <<withdrawals, history, credited>>
    /\ \E ok \in BOOLEAN :
         IF ~ok THEN /\ sendErrorAfter(r, 500, "Withdrawal failed", 0, 1)
                     /\ UNCHANGED users
         ELSE /\ users' = PatchBalance(req[r].id, req[r].newBalance)
              /\ req' = [req EXCEPT ![r].pc = "wd_post", ![r].writes = @ + 1]

\* The row of the POST to withdrawals (lines 1134-1139).
WithdrawalRecord_Approved(id, amount) == [user_id |-> id, amount |-> amount, status |-> "Approved"]
WithdrawalRecord(id, amount) == [user_id |-> id, amount |-> amount, status |-> "Pending"]

WithdrawPost(r) ==
    /\ variant = "tg" /\ req[r].pc = "wd_post"
    /\ Frame /\ UNCHANGED <<users, history, credited>>
    /\ \E ok \in BOOLEAN :
         IF ~ok THEN /\ sendErrorAfter(r, 500, "Withdrawal failed", 0, 1)
                     /\ UNCHANGED withdrawals
         ELSE /\ withdrawals' = Append(withdrawals, WithdrawalRecord(req[r].id, req[r].amount.v))
              /\ sendSuccessAfter(r, 0, 1)

\* ------------------------------------------------ tg: handleRegister (916)
\* The insert carries no upsert preference, so an insert of an id that has
\* a row by then is refused by the unique key and the call throws.
Conflict_Never(id) == FALSE
Conflict(id) == id \in DOMAIN users

RegisterGet(r) ==
    /\ variant = "tg" /\ req[r].pc = "rg_get"
    /\ Frame /\ StoreSame
    /\ \E ok \in BOOLEAN :
         IF ~ok THEN sendErrorAfter(r, 500, "Registration failed", 1, 0)
         ELSE IF req[r].id \notin DOMAIN users
           THEN req' = [req EXCEPT ![r].pc = "rg_post", ![r].reads = @ + 1]
         ELSE sendSuccessAfter(r, 1, 0)

RegisterPost(r) ==
    /\ variant = "tg" /\ req[r].pc = "rg_post"
    /\ Frame /\ UNCHANGED <<withdrawals, history, credited>>
    /\ \E ok \in BOOLEAN :
         LET id == req[r].id
             ref == IF req[r].ref_by # <<>> THEN parseInt(req[r].ref_by) ELSE Null IN
         IF ~ok \/ Conflict(id) \/ id \notin UserIds
           THEN /\ sendErrorAfter(r, 500, "Registration failed", 0, 1)
                /\ UNCHANGED users
         ELSE /\ users' = [i \in DOMAIN users \cup {id} |->
                              IF i = id THEN Row(0, 0, 0, ref) ELSE users[i]]
              /\ sendSuccessAfter(r, 0, 1)

\* --------------------------------------------- tg: handleGetUserData (866)
\* const userData = users[0] (line 889): the row as selected, with
\* balance, ads_watched_today and spins_today.
userData_Zero(row) == NoRow
userData(row) == Row(row.balance, row.ads_watched_today, row.spins_today, Null)

GetUserDataGet(r) ==
    /\ variant = "tg" /\ req[r].pc = "gu_get"
    /\ Frame /\ StoreSame
    /\ \E ok \in BOOLEAN :
         LET id == req[r].id IN
         IF ~ok THEN sendErrorAfter(r, 500, "Failed to retrieve user data", 1, 0)
         ELSE IF id \notin DOMAIN users
           THEN req' = [req EXCEPT ![r].pc = "done", ![r].status = 200,
                                   ![r].user = NoRow, ![r].reads = @ + 1]
         ELSE req' = [req EXCEPT ![r].pc = "gu_refs", ![r].user = userData(users[id]),
                                 ![r].reads = @ + 1]

GetUserDataReferrals(r) ==
    /\ variant = "tg" /\ req[r].pc = "gu_refs"
    /\ Frame /\ StoreSame
    /\ \E ok \in BOOLEAN :
         IF ~ok THEN sendErrorAfter(r, 500, "Failed to retrieve user data", 1, 0)
         ELSE req' = [req EXCEPT ![r].pc = "gu_hist", ![r].reads = @ + 1,
                        ![r].newCount = Cardinality({i \in DOMAIN users : users[i].ref_by = req[r].id})]

GetUserDataHistory(r) ==
    /\ variant = "tg" /\ req[r].pc = "gu_hist"
    /\ Frame /\ StoreSame
    /\ \E ok \in BOOLEAN :
         IF ~ok THEN sendErrorAfter(r, 500, "Failed to retrieve user data", 1, 0)
         ELSE sendSuccessAfter(r, 1, 0)

\* ------------------------------------------------------ hash: part_001
Tables == {"ads_history", "spin_requests", "spin_results", "commission_history"}
HistoryRecord(id, amount) == [user_id |-> id, amount |-> amount]
CommissionRecord(referrer, referee, amount) ==
    [referrer_id |-> referrer, referee_id |-> referee, amount |-> amount]
Insert(table, rec) == [history EXCEPT ![table] = Append(@, rec)]

\* handleWatchAd (part_001, 219)
WatchAdGetH(r) ==
    /\ variant = "hash" /\ req[r].pc = "wa_get"
    /\ Frame /\ StoreSame
    /\ \E ok \in BOOLEAN :
         LET id == req[r].id IN
         IF ~ok THEN sendErrorAfter(r, 500, "WatchAd failed", 1, 0)
         ELSE IF id \notin DOMAIN users THEN sendErrorAfter(r, 404, "User not found.", 1, 0)
         ELSE IF users[id].ads_watched_today >= DAILY_MAX_ADS
           THEN req' = [req EXCEPT ![r].pc = "done", ![r].status = 403,
                                   ![r].error = "Daily ad limit (100) reached.",
                                   ![r].user = users[id], ![r].reads = @ + 1]
         ELSE req' = [req EXCEPT ![r].pc = "wa_patch", ![r].user = users[id],
                                 ![r].newBalance = users[id].balance + Reward,
                                 ![r].newCount = users[id].ads_watched_today + 1,
                                 ![r].reads = @ + 1]

WatchAdPatchH(r) ==
    /\ variant = "hash" /\ req[r].pc = "wa_patch"
    /\ Frame /\ UNCHANGED <<withdrawals, history>>
    /\ \E ok \in BOOLEAN :
         LET id == req[r].id IN
         IF ~ok THEN /\ sendErrorAfter(r, 500, "WatchAd failed", 0, 1)
                     /\ UNCHANGED <<users, credited>>
         ELSE /\ users' = IF id \in DOMAIN users
                          THEN [users EXCEPT ![id].balance = req[r].newBalance,
                                             ![id].ads_watched_today = req[r].newCount]
                          ELSE users
              /\ credited' = Credit(id, Reward)
              /\ req' = [req EXCEPT ![r].pc = "wa_post", ![r].writes = @ + 1]

WatchAdPostH(r) ==
    /\ variant = "hash" /\ req[r].pc = "wa_post"
    /\ Frame /\ UNCHANGED <<users, withdrawals, credited>>
    /\ \E ok \in BOOLEAN :
         IF ~ok THEN /\ sendErrorAfter(r, 500, "WatchAd failed", 0, 1)
                     /\ UNCHANGED history
         ELSE /\ history' = Insert("ads_history", HistoryRecord(req[r].id, Reward))
              /\ sendSuccessAfter(r, 0, 1)

\* handleCommission (part_001, 269): id is the referrer, user_id the
\* referee_id of the body and ref_by its referrer_id.
CommissionGetH(r) ==
    /\ variant = "hash" /\ req[r].pc = "cm_get"
    /\ Frame /\ StoreSame
    /\ \E ok \in BOOLEAN :
         LET id == req[r].id IN
         IF ~ok THEN sendErrorAfter(r, 500, "Commission failed", 1, 0)
         ELSE IF id \notin DOMAIN users THEN sendSuccessAfter(r, 1, 0)
         ELSE req' = [req EXCEPT ![r].pc = "cm_patch", ![r].user = users[id],
                                 ![r].newBalance = users[id].balance + Commission,
                                 ![r].reads = @ + 1]

CommissionPatchH(r) ==
    /\ variant = "hash" /\ req[r].pc = "cm_patch"
    /\ Frame /\ UNCHANGED <<withdrawals, history>>
    /\ \E ok \in BOOLEAN :
         IF ~ok THEN /\ sendErrorAfter(r, 500, "Commission failed", 0, 1)
                     /\ UNCHANGED <<users, credited>>
         ELSE /\ users' = PatchBalance(req[r].id, req[r].newBalance)
              /\ credited' = Credit(req[r].id, Commission)
              /\ req' = [req EXCEPT ![r].pc = "cm_post", ![r].writes = @ + 1]

CommissionPostH(r) ==
    /\ variant = "hash" /\ req[r].pc = "cm_post"
    /\ Frame /\ UNCHANGED <<users, withdrawals, credited>>
    /\ \E ok \in BOOLEAN :
         IF ~ok THEN /\ sendErrorAfter(r, 500, "Commission failed", 0, 1)
                     /\ UNCHANGED history
         ELSE /\ history' = Insert("commission_history",
                               CommissionRecord(req[r].id, parseInt(req[r].user_id), Commission))
              /\ sendSuccessAfter(r, 0, 1)

\* handleSpin (part_001, 315)
SpinGetH(r) ==
    /\ variant = "hash" /\ req[r].pc = "sp_get"
    /\ Frame /\ StoreSame
    /\ \E ok \in BOOLEAN :
         LET id == req[r].id IN
         IF ~ok THEN sendErrorAfter(r, 500, "Spin request failed", 1, 0)
         ELSE IF id \notin DOMAIN users THEN sendErrorAfter(r, 404, "User not found.", 1, 0)
         ELSE IF users[id].spins_today >= DAILY_MAX_SPINS
           THEN req' = [req EXCEPT ![r].pc = "done", ![r].status = 403,
                                   ![r].error = "Daily spin limit (15) reached.",
                                   ![r].user = users[id], ![r].reads = @ + 1]
         ELSE req' = [req EXCEPT ![r].pc = "sp_patch", ![r].user = users[id],
                                 ![r].newCount = users[id].spins_today + 1,
                                 ![r].reads = @ + 1]

SpinPatchH(r) ==
    /\ variant = "hash" /\ req[r].pc = "sp_patch"
    /\ Frame /\ UNCHANGED <<withdrawals, history, credited>>
    /\ \E ok \in BOOLEAN :
         LET id == req[r].id IN
         IF ~ok THEN /\ sendErrorAfter(r, 500, "Spin request failed", 0, 1)
                     /\ UNCHANGED users
         ELSE /\ users' = IF id \in DOMAIN users
                          THEN [users EXCEPT ![id].spins_today = req[r].newCount]
                          ELSE users
              /\ req' = [req EXCEPT ![r].pc = "sp_post", ![r].writes = @ + 1]

SpinPostH(r) ==
    /\ variant = "hash" /\ req[r].pc = "sp_post"
    /\ Frame /\ UNCHANGED <<users, withdrawals, credited>>
    /\ \E ok \in BOOLEAN :
         IF ~ok THEN /\ sendErrorAfter(r, 500, "Spin request failed", 0, 1)
                     /\ UNCHANGED history
         ELSE /\ history' = Insert("spin_requests", HistoryRecord(req[r].id, 0))
              /\ sendSuccessAfter(r, 0, 1)

\* handleSpinResult (part_001, 359): the prize was drawn before the fetch.
SpinResultGetH(r) ==
    /\ variant = "hash" /\ req[r].pc = "sr_get"
    /\ Frame /\ StoreSame
    /\ \E ok \in BOOLEAN :
         LET id == req[r].id IN
         IF ~ok THEN sendErrorAfter(r, 500, "Spin result failed", 1, 0)
         ELSE IF id \notin DOMAIN users THEN sendErrorAfter(r, 404, "User not found.", 1, 0)
         ELSE req' = [req EXCEPT ![r].pc = "sr_patch", ![r].user = users[id],
                                 ![r].newBalance = users[id].balance + Units(req[r].prize),
                                 ![r].reads = @ + 1]

SpinResultPatchH(r) ==
    /\ variant = "hash" /\ req[r].pc = "sr_patch"
    /\ Frame /\ UNCHANGED <<withdrawals, history>>
    /\ \E ok \in BOOLEAN :
         IF ~ok THEN /\ sendErrorAfter(r, 500, "Spin result failed", 0, 1)
                     /\ UNCHANGED <<users, credited>>
         ELSE /\ users' = PatchBalance(req[r].id, req[r].newBalance)
              /\ credited' = Credit(req[r].id, Units(req[r].prize))
              /\ req' = [req EXCEPT ![r].pc = "sr_post", ![r].writes = @ + 1]

SpinResultPostH(r) ==
    /\ variant = "hash" /\ req[r].pc = "sr_post"
    /\ Frame /\ UNCHANGED <<users, withdrawals, credited>>
    /\ \E ok \in BOOLEAN :
         IF ~ok THEN /\ sendErrorAfter(r, 500, "Spin result failed", 0, 1)
                     /\ UNCHANGED history
         ELSE /\ history' = Insert("spin_results", HistoryRecord(req[r].id, Units(req[r].prize)))
              /\ sendSuccessAfter(r, 0, 1)

\* handleWithdraw (part_001, 402)
WithdrawGetH(r) ==
    /\ variant = "hash" /\ req[r].pc = "wd_get"
    /\ Frame /\ StoreSame
    /\ \E ok \in BOOLEAN :
         LET id == req[r].id
             amount == req[r].amount.v IN
         IF ~ok THEN sendErrorAfter(r, 500, "Withdrawal failed", 1, 0)
         ELSE IF id \notin DOMAIN users THEN sendErrorAfter(r, 404, "User not found.", 1, 0)
         ELSE IF amount < Units(400)
           THEN req' = [req EXCEPT ![r].pc = "done", ![r].status = 403,
                                   ![r].error = "Minimum withdrawal is 400 SHIB.",
                                   ![r].user = users[id], ![r].reads = @ + 1]
         ELSE IF amount > users[id].balance
           THEN req' = [req EXCEPT ![r].pc = "done", ![r].status = 403,
                                   ![r].error = "Insufficient balance.",
                                   ![r].user = users[id], ![r].reads = @ + 1]
         ELSE req' = [req EXCEPT ![r].pc = "wd_patch", ![r].user = users[id],
                                 ![r].newBalance = users[id].balance - amount,
                                 ![r].reads = @ + 1]

WithdrawPatchH(r) ==
    /\ variant = "hash" /\ req[r].pc = "wd_patch"
    /\ Frame /\ UNCHANGED <<withdrawals, history, credited>>
    /\ \E ok \in BOOLEAN :
         IF ~ok THEN /\ sendErrorAfter(r, 500, "Withdrawal failed", 0, 1)
                     /\ UNCHANGED users
         ELSE /\ users' = PatchBalance(req[r].id, req[r].newBalance)
              /\ req' = [req EXCEPT ![r].pc = "wd_post", ![r].writes = @ + 1]

WithdrawPostH(r) ==
    /\ variant = "hash" /\ req[r].pc = "wd_post"
    /\ Frame /\ UNCHANGED <<users, history, credited>>
    /\ \E ok \in BOOLEAN :
         IF ~ok THEN /\ sendErrorAfter(r, 500, "Withdrawal failed", 0, 1)
                     /\ UNCHANGED withdrawals
         ELSE /\ withdrawals' = Append(withdrawals, WithdrawalRecord(req[r].id, req[r].amount.v))
              /\ sendSuccessAfter(r, 0, 1)

\* ------------------------------------------------- plain: api/index.js
\* handleWithdraw (api/index.js, 311; the same text is part_000, 366): the
\* amount is compared with the balance only.
WithdrawGetP(r) ==
    /\ variant = "plain" /\ req[r].pc = "wd_get"
    /\ Frame /\ StoreSame
    /\ \E ok \in BOOLEAN :
         LET id == req[r].id
             amount == req[r].amount.v IN
         IF ~ok THEN sendErrorAfter(r, 500, "Withdrawal failed", 1, 0)
         ELSE IF id \notin DOMAIN users THEN sendErrorAfter(r, 404, "User not found.", 1, 0)
         ELSE IF amount > users[id].balance
           THEN req' = [req EXCEPT ![r].pc = "done", ![r].status = 403,
                                   ![r].error = "Insufficient balance.",
                                   ![r].user = users[id], ![r].reads = @ + 1]
         ELSE req' = [req EXCEPT ![r].pc = "wd_patch", ![r].user = users[id],
                                 ![r].newBalance = users[id].balance - amount,
                                 ![r].reads = @ + 1]

WithdrawPatchP(r) ==
    /\ variant = "plain" /\ req[r].pc = "wd_patch"
    /\ Frame /\ UNCHANGED <<withdrawals, history, credited>>
    /\ \E ok \in BOOLEAN :
         IF ~ok THEN /\ sendErrorAfter(r, 500, "Withdrawal failed", 0, 1)
                     /\ UNCHANGED users
         ELSE /\ users' = PatchBalance(req[r].id, req[r].newBalance)
              /\ req' = [req EXCEPT ![r].pc = "wd_post", ![r].writes = @ + 1]

WithdrawPostP(r) ==
    /\ variant = "plain" /\ req[r].pc = "wd_post"
    /\ Frame /\ UNCHANGED <<users, history, credited>>
    /\ \E ok \in BOOLEAN :
         IF ~ok THEN /\ sendErrorAfter(r, 500, "Withdrawal failed", 0, 1)
                     /\ UNCHANGED withdrawals
         ELSE /\ withdrawals' = Append(withdrawals, WithdrawalRecord(req[r].id, req[r].amount.v))
              /\ sendSuccessAfter(r, 0, 1)

\* handleWatchAd (api/index.js, 136; the same text is part_000, 190): the
\* reward of the body, held in amount, is added to the balance; there is
\* no daily limit.
WatchAdGetP(r) ==
    /\ variant = "plain" /\ req[r].pc = "wa_get"
    /\ Frame /\ StoreSame
    /\ \E ok \in BOOLEAN :
         LET id == req[r].id
             reward == req[r].amount.v IN
         IF ~ok THEN sendErrorAfter(r, 500, "WatchAd failed", 1, 0)
         ELSE IF id \notin DOMAIN users THEN sendErrorAfter(r, 404, "User not found.", 1, 0)
         ELSE req' = [req EXCEPT ![r].pc = "wa_patch", ![r].user = users[id],
                                 ![r].newBalance = users[id].balance + reward,
                                 ![r].newCount = users[id].ads_watched_today + 1,
                                 ![r].reads = @ + 1]

WatchAdPatchP(r) ==
    /\ variant = "plain" /\ req[r].pc = "wa_patch"
    /\ Frame /\ UNCHANGED <<withdrawals, history>>
    /\ \E ok \in BOOLEAN :
         LET id == req[r].id IN
         IF ~ok THEN /\ sendErrorAfter(r, 500, "WatchAd failed", 0, 1)
                     /\ UNCHANGED <<users, credited>>
         ELSE /\ users' = IF id \in DOMAIN users
                          THEN [users EXCEPT ![id].balance = req[r].newBalance,
                                             ![id].ads_watched_today = req[r].newCount]
                          ELSE users
              /\ credited' = Credit(id, req[r].amount.v)
              /\ req' = [req EXCEPT ![r].pc = "wa_post", ![r].writes = @ + 1]

WatchAdPostP(r) ==
    /\ variant = "plain" /\ req[r].pc = "wa_post"
    /\ Frame /\ UNCHANGED <<users, withdrawals, credited>>
    /\ \E ok \in BOOLEAN :
         IF ~ok THEN /\ sendErrorAfter(r, 500, "WatchAd failed", 0, 1)
                     /\ UNCHANGED history
         ELSE /\ history' = Insert("ads_history", HistoryRecord(req[r].id, req[r].amount.v))
              /\ sendSuccessAfter(r, 0, 1)

\* ------------------------------------- stats: api/index.js, export default
\* case 'update_stats' (api/index.js, 605; part_002, 197 stores the same
\* payload): the rows of user_stats are the account rows of this revision.
\* user holds the payload built from the body; the upsert replaces the row
\* of the id or inserts it.
Upsert(id, row) == [i \in DOMAIN users \cup {id} |-> IF i = id THEN row ELSE users[i]]
UpdateStatsPost(r) ==
    /\ variant = "stats" /\ req[r].pc = "us_post"
    /\ FrameS /\ UNCHANGED <<withdrawals, history, credited>>
    /\ \E ok \in BOOLEAN :
         LET id == req[r].id IN
         IF ~ok THEN /\ sendErrorAfter(r, 500, "Internal Server Error", 0, 1)
                     /\ UNCHANGED <<users, last_update>>
         ELSE /\ users' = Upsert(id, req[r].user)
              /\ last_update' = Stamp(id)
              /\ sendSuccessAfter(r, 0, 1)

\* ------------------------------------------- statslog: part_002, get_stats
\* isSameDay (part_002, 13)
isSameDay_DateOnly(date1, date2) == date1.date = date2.date
isSameDay(date1, date2) ==
    /\ date1.year = date2.year
    /\ date1.month = date2.month
    /\ date1.date = date2.date

\* case 'get_stats' (part_002, 140): the GET of the row and the daily
\* reset; user holds userStats, and the row is saved when resetNeeded.
GetStatsGet(r) ==
    /\ variant = "statslog" /\ req[r].pc = "gs_get"
    /\ Frame /\ StoreSame
    /\ \E ok \in BOOLEAN :
         LET id == req[r].id IN
         IF ~ok THEN sendErrorAfter(r, 500, "Internal Server Error", 1, 0)
         ELSE IF id \in DOMAIN users
           THEN IF ~isSameDay(NowDate, last_update[id])
                  THEN req' = [req EXCEPT ![r].pc = "gs_post", ![r].reads = @ + 1,
                                 ![r].user = [users[id] EXCEPT !.ads_watched_today = 0,
                                                               !.spins_today = 0]]
                ELSE req' = [req EXCEPT ![r].pc = "done", ![r].status = 200,
                                        ![r].reads = @ + 1, ![r].user = users[id]]
         ELSE req' = [req EXCEPT ![r].pc = "gs_post", ![r].reads = @ + 1,
                                 ![r].user = NoRow]

GetStatsPost(r) ==
    /\ variant = "statslog" /\ req[r].pc = "gs_post"
    /\ FrameS /\ UNCHANGED <<withdrawals, history, credited>>
    /\ \E ok \in BOOLEAN :
         LET id == req[r].id IN
         IF ~ok THEN /\ sendErrorAfter(r, 500, "Internal Server Error", 0, 1)
                     /\ UNCHANGED <<users, last_update>>
         ELSE /\ users' = Upsert(id, req[r].user)
              /\ last_update' = Stamp(id)
              /\ sendSuccessAfter(r, 0, 1)

\* ------------------------------------------------------------ requests
SignedTypes == {"watchAd", "spin", "spinResult", "withdraw"}

FirstStep(type) ==
    IF type = "watchAd" THEN "wa_get"
    ELSE IF type = "spin" THEN "sp_get"
    ELSE IF type = "spinResult" THEN "sr_get"
    ELSE "wd_get"

Quiet(q) == req[q].pc \in {"idle", "done", "crashed"}

\* A new invocation in slot r, the lowest slot whose invocation has ended.
\* alone records that no other invocation was running or has started
\* since; pre is the row of the account it names at that moment.
Begin(r, rec) ==
    /\ Quiet(r)
    /\ \A o \in Slots : o < r => ~Quiet(o)
    /\ served < MaxRequests
    /\ served' = served + 1
    /\ req' = [q \in Slots |->
                 IF q = r
                 THEN [rec EXCEPT !.alone = \A o \in Slots \ {r} : Quiet(o),
                                  !.pre = IF rec.id \in DOMAIN users
                                          THEN users[rec.id] ELSE NoRow]
                 ELSE IF req[q].pc = "idle" THEN req[q]
                 ELSE [req[q] EXCEPT !.alone = FALSE]]
    /\ UNCHANGED <<variant, BOT_TOKEN, users0, counterDay, last_update>>
    /\ StoreSame

\* typeof amount !== 'number' || amount <= 0
InvalidAmount_Never(amount) == FALSE
InvalidAmount(amount) == ~amount.num \/ amount.v <= 0

\* tg: module.exports (1150) dispatching to a signed handler, which runs
\* securityPreCheck and, for withdraw, the test of the amount.
StartSigned(r, type, init_data, user_id, amount) ==
    /\ variant = "tg" /\ type \in SignedTypes
    /\ LET chk == securityPreCheck(init_data, user_id, BOT_TOKEN)
           base == [IdleReq EXCEPT !.type = type, !.init_data = init_data,
                                   !.user_id = user_id, !.amount = amount]
       IN  Begin(r,
             IF chk.threw THEN [base EXCEPT !.pc = "crashed"]
             ELSE IF chk.st # 0
               THEN [base EXCEPT !.pc = "done", !.status = chk.st, !.error = chk.err]
             ELSE IF type = "withdraw" /\ InvalidAmount(amount)
               THEN [base EXCEPT !.pc = "done", !.status = 400,
                                 !.error = "Invalid withdrawal amount.",
                                 !.id = parseInt(IdToText(chk.user))]
             ELSE [base EXCEPT !.pc = FirstStep(type),
                               !.id = parseInt(IdToText(chk.user))])

\* tg: module.exports (1150) on the paths that reach no handler.  body is
\* "invalid" for a text JSON.parse refuses, "null" for the JSON null and
\* "object" for an object, whose type field is type ("" when it has none);
\* the request keeps the type that the entry point has read.
MethodAllowed_Any(method) == TRUE
MethodAllowed(method) == method = "POST"
KnownTypes == {"getUserData", "register", "watchAd", "spin", "spinResult", "withdraw"}
StartEntry(r, method, body, type) ==
    /\ variant = "tg"
    /\ (method = "POST" /\ body = "object") => type \notin KnownTypes
    /\ LET base == [IdleReq EXCEPT !.method = method, !.body = body,
                                   !.type = IF method = "POST" /\ body = "object"
                                           THEN type ELSE "",
                                   !.pc = "done"]
       IN  Begin(r,
             IF method = "OPTIONS" THEN [base EXCEPT !.status = 200]
             ELSE IF ~MethodAllowed(method)
               THEN [base EXCEPT !.status = 405,
                                 !.error = "Method not allowed. Only POST is supported."]
             ELSE IF body = "invalid"
               THEN [base EXCEPT !.status = 400, !.error = "Invalid JSON payload."]
             ELSE IF body = "null" \/ type = ""
               THEN [base EXCEPT !.status = 400,
                                 !.error = "Missing \"type\" field in the request body."]
             ELSE [base EXCEPT !.status = 400, !.error = "Unknown action type"])

\* tg: module.exports dispatching to handleRegister.
StartRegister(r, user_id, ref_by) ==
    /\ variant = "tg"
    /\ Begin(r, [IdleReq EXCEPT !.type = "register", !.user_id = user_id,
                                !.ref_by = ref_by, !.id = parseInt(user_id),
                                !.pc = "rg_get"])

\* tg: module.exports dispatching to handleGetUserData.
StartGetUserData(r, user_id) ==
    /\ variant = "tg"
    /\ LET base == [IdleReq EXCEPT !.type = "getUserData", !.user_id = user_id]
       IN  Begin(r,
             IF user_id = <<>>
             THEN [base EXCEPT !.pc = "done", !.status = 400,
                               !.error = "Missing user_id for data fetch."]
             ELSE [base EXCEPT !.pc = "gu_get", !.id = parseInt(user_id)])

\* hash: module.exports (part_001, 461) dispatching to a signed handler,
\* which runs verifySignature, the test of the amount (withdraw) and the
\* draw of the prize (spinResult).
StartSignedH(r, type, user_id, signature, amount, prize) ==
    /\ variant = "hash" /\ type \in SignedTypes
    /\ prize \in {SPIN_SECTORS[i] : i \in DOMAIN SPIN_SECTORS}
    /\ LET base == [IdleReq EXCEPT !.type = type, !.signature = signature,
                                   !.user_id = user_id, !.amount = amount]
       IN  Begin(r,
             IF user_id = <<>>
               THEN [base EXCEPT !.pc = "done", !.status = 400,
                                 !.error = "Missing user_id in the request body."]
             ELSE IF ~verifySignature(user_id, type, signature)
               THEN [base EXCEPT !.pc = "done", !.status = 403,
                                 !.error = "Invalid signature or missing token.",
                                 !.id = parseInt(user_id)]
             ELSE IF type = "withdraw" /\ InvalidAmount(amount)
               THEN [base EXCEPT !.pc = "done", !.status = 400,
                                 !.error = "Invalid withdrawal amount.",
                                 !.id = parseInt(user_id)]
             ELSE [base EXCEPT !.pc = FirstStep(type), !.id = parseInt(user_id),
                               !.prize = IF type = "spinResult" THEN prize ELSE 0])

\* hash: module.exports dispatching to handleCommission, which carries no
\* signature and acknowledges a body without referrer_id or referee_id.
StartCommissionH(r, referrer_id, referee_id) ==
    /\ variant = "hash"
    /\ LET base == [IdleReq EXCEPT !.type = "commission", !.user_id = referee_id,
                                   !.ref_by = referrer_id]
       IN  Begin(r,
             IF referrer_id = <<>> \/ referee_id = <<>>
               THEN [base EXCEPT !.pc = "done", !.status = 200]
             ELSE [base EXCEPT !.pc = "cm_get", !.id = parseInt(referrer_id)])

\* plain: module.exports (api/index.js, 362) dispatching to handleWithdraw,
\* which tests the presence of its fields and parses the id.  binanceId says
\* whether the body carries a binanceId.
StartWithdrawP(r, user_id, binanceId, amount) ==
    /\ variant = "plain"
    /\ LET base == [IdleReq EXCEPT !.type = "withdraw", !.user_id = user_id,
                                   !.amount = amount]
       IN  Begin(r,
             IF user_id = <<>> \/ ~binanceId \/ ~amount.num
               THEN [base EXCEPT !.pc = "done", !.status = 400,
                       !.error = "Missing user_id, binanceId, or amount for withdrawal."]
             ELSE IF parseInt(user_id) = NaN
               THEN [base EXCEPT !.pc = "done", !.status = 400,
                                 !.error = "Invalid user_id."]
             ELSE [base EXCEPT !.pc = "wd_get", !.id = parseInt(user_id)])

\* plain: module.exports (api/index.js, 362) dispatching to handleWatchAd,
\* which tests the presence of its fields and parses the id.
StartWatchAdP(r, user_id, reward) ==
    /\ variant = "plain"
    /\ LET base == [IdleReq EXCEPT !.type = "watchAd", !.user_id = user_id,
                                   !.amount = reward]
       IN  Begin(r,
             IF user_id = <<>> \/ ~reward.num
               THEN [base EXCEPT !.pc = "done", !.status = 400,
                       !.error = "Missing user_id or reward for watchAd."]
             ELSE IF parseInt(user_id) = NaN
               THEN [base EXCEPT !.pc = "done", !.status = 400,
                                 !.error = "Invalid user_id."]
             ELSE [base EXCEPT !.pc = "wa_get", !.id = parseInt(user_id)])

\* stats: export default (api/index.js, 527) with type 'update_stats'.
\* has says whether the body carries balance, ads_watched_today and
\* spins_today; stats holds them, numbers that parseFloat and parseInt
\* give back as they are.
StartUpdateStats(r, user_id, has, stats) ==
    /\ variant = "stats"
    /\ LET base == [IdleReq EXCEPT !.type = "update_stats", !.user_id = user_id]
       IN  Begin(r,
             IF user_id = <<>>
               THEN [base EXCEPT !.pc = "done", !.status = 400,
                                 !.error = "Missing user_id or type"]
             ELSE IF ~has
               THEN [base EXCEPT !.pc = "done", !.status = 400,
                                 !.error = "Missing stats data for update",
                                 !.id = parseInt(user_id)]
             ELSE [base EXCEPT !.pc = "us_post", !.id = parseInt(user_id),
                               !.user = stats])

\* statslog: module.exports (part_002, 96) with type 'get_stats'.
StartGetStats(r, user_id) ==
    /\ variant = "statslog"
    /\ LET base == [IdleReq EXCEPT !.type = "get_stats", !.user_id = user_id]
       IN  Begin(r,
             IF user_id = <<>>
               THEN [base EXCEPT !.pc = "done", !.status = 400,
                                 !.error = "user_id is required for get_stats."]
             ELSE [base EXCEPT !.pc = "gs_get", !.id = parseInt(user_id)])

\* -------------------------------------------------------------- inputs
GenuineToken == "tok"         \* the token of the bot, held by Telegram

IdTexts == {NumToText(i) : i \in UserIds}
UserIdTexts == IdTexts \cup {<<>>, <<"undefined">>}

UserTexts == {<<>>, BadJson, NullJson, EmptyObjJson, ToStringJson}
                \cup {UserJson(i) : i \in UserIds} \cup {NumJson(i) : i \in UserIds}
DateTexts == {<<>>, StaleDate, FreshDate}

\* The string Telegram signs: the fields as sent, sorted by key.
RawDataCheckString(data) ==
    LET ks == SortKeys(DOMAIN data \ {"hash"})
    IN  JoinLines([i \in DOMAIN ks |-> <<ks[i], "=">> \o data[ks[i]]])

\* The digest a holder of token tok computes for the string the server
\* builds (with the user field as the server renders it).
ServerDigest(data, tok) ==
    HMAC(Secret(tok), DataCheckString(data, JSONparse(Field(data, "user"))))

TelegramDigest(data, tok) == HMAC(Secret(tok), RawDataCheckString(data))

Pairs(userText, dateText) ==
    (IF userText = <<>> THEN <<>> ELSE << <<"user", userText>> >>)
      \o (IF dateText = <<>> THEN <<>> ELSE << <<"auth_date", dateText>> >>)

HashKinds == {"none", "telegram", "server", "forged"}

\* An initData query string: the user and auth_date fields followed
\* (order 1) or preceded (order 2) by the hash field.
InitDataOf(userText, dateText, kind, order) ==
    LET fs == Pairs(userText, dateText)
        data == URLSearchParams(fs)
        h == IF kind = "telegram" THEN TelegramDigest(data, GenuineToken)
             ELSE IF kind = "server" THEN ServerDigest(data, GenuineToken)
             ELSE IF kind = "forged" THEN TelegramDigest(data, "guess")
             ELSE <<>>
        hs == IF kind = "none" THEN <<>> ELSE << <<"hash", h>> >>
    IN  IF order = 1 THEN fs \o hs ELSE hs \o fs

AllInitData ==
    {<<>>} \cup {InitDataOf(u, d, k, o) : u \in UserTexts, d \in DateTexts,
                                          k \in HashKinds, o \in {1, 2}}

\* initData that the server accepts for user i.
AcceptedTable == [i \in UserIds |-> InitDataOf(UserJson(i), FreshDate, "server", 1)]
AcceptedInitData(i) == AcceptedTable[i]

\* The signature the client of the hash revision computes.
ClientSignature(user_id, type) == SHA256(user_id \o <<":", type, ":", SECRET_KEY>>)
AllSignatures ==
    {<<>>} \cup {ClientSignature(u, t) : u \in IdTexts, t \in SignedTypes}

AllAmounts == {NoAmount, Amount(TRUE, 0), Amount(TRUE, 0 - Units(5)),
               Amount(TRUE, Units(MIN_WITHDRAW_AMOUNT) - 1),
               Amount(TRUE, Units(MIN_WITHDRAW_AMOUNT)),
               Amount(TRUE, Units(MIN_WITHDRAW_AMOUNT + 5)),
               Amount(TRUE, Units(MIN_WITHDRAW_AMOUNT + 100))}
FundedAmounts == {Amount(TRUE, Units(MIN_WITHDRAW_AMOUNT + 5))}

\* ----------------------------------------------------------- initial state
\* Account rows as earlier requests leave them.  Account 1 stands at both
\* ceilings and its referees (account 2 and accounts outside UserIds) have
\* earned it 105 SHIB of commission; account 2 was referred by account 1
\* and has watched DAILY_MAX - 2 ads and used DAILY_MAX_SPINS - 1 spins.
FullRow == Row(Reward * DAILY_MAX + Units(105), DAILY_MAX, DAILY_MAX_SPINS, Null)
NearRow == Row(Reward * (DAILY_MAX - 2), DAILY_MAX - 2, DAILY_MAX_SPINS - 1, 1)

UsedTable == [i \in {1, 2} |-> IF i = 1 THEN FullRow ELSE NearRow]
EmptyTable == [i \in {} |-> NoRow]

InitRest ==
    /\ users0 = users
    /\ withdrawals = <<>>
    /\ history = [t \in Tables |-> <<>>]
    /\ req = [r \in Slots |-> IdleReq]
    /\ served = 0
    /\ credited = [i \in UserIds |-> IF i \in DOMAIN users THEN users[i].balance ELSE 0]
    /\ last_update \in [DOMAIN users -> StoredDates]
    /\ variant # "statslog" => \A i \in DOMAIN users : last_update[i] = NowDate

\* The UTC day of Date.now(), and the day before it.
Today == "today"
Yesterday == "yesterday"

\* The Telegram revision is deployed, on a new store or on a store used
\* earlier on the same day.
Init ==
    /\ variant = "tg"
    /\ BOT_TOKEN = GenuineToken
    /\ users \in {EmptyTable, UsedTable}
    /\ counterDay = Today
    /\ InitRest

\* Any revision is deployed, on a new store or on a store used on this or
\* on the previous day; BOT_TOKEN may be missing, and only the Telegram
\* revision reads it.
InitAuth ==
    /\ variant \in {"tg", "hash", "plain", "stats"}
    /\ BOT_TOKEN \in {"", GenuineToken}
    /\ variant # "tg" => BOT_TOKEN = ""
    /\ users \in {EmptyTable, UsedTable}
    /\ counterDay \in {Yesterday, Today}
    /\ users = EmptyTable => counterDay = Today
    /\ InitRest

\* ------------------------------------------------------------- behaviours
Step(r) ==
    \/ WatchAdGet(r) \/ WatchAdPatch(r) \/ WatchAdRefGet(r) \/ WatchAdRefPatch(r)
    \/ SpinGet(r) \/ SpinPatch(r)
    \/ SpinResultGet(r)
    \/ WithdrawGet(r) \/ WithdrawPatch(r) \/ WithdrawPost(r)
    \/ RegisterGet(r) \/ RegisterPost(r)
    \/ GetUserDataGet(r) \/ GetUserDataReferrals(r) \/ GetUserDataHistory(r)

StepH(r) ==
    \/ WatchAdGetH(r) \/ WatchAdPatchH(r) \/ WatchAdPostH(r)
    \/ SpinGetH(r) \/ SpinPatchH(r) \/ SpinPostH(r)
    \/ SpinResultGetH(r) \/ SpinResultPatchH(r) \/ SpinResultPostH(r)
    \/ WithdrawGetH(r) \/ WithdrawPatchH(r) \/ WithdrawPostH(r)
    \/ CommissionGetH(r) \/ CommissionPatchH(r) \/ CommissionPostH(r)

StepP(r) ==
    \/ WithdrawGetP(r) \/ WithdrawPatchP(r) \/ WithdrawPostP(r)
    \/ WatchAdGetP(r) \/ WatchAdPatchP(r) \/ WatchAdPostP(r)

StepS(r) == UpdateStatsPost(r)

\* Concurrent invocations with credentials the server accepts.
StartAccepted(r) ==
    \/ \E i \in UserIds, t \in SignedTypes :
         \E a \in (IF t = "withdraw" THEN FundedAmounts ELSE {NoAmount}) :
           StartSigned(r, t, AcceptedInitData(i), NumToText(i), a)
    \/ \E u \in IdTexts, ref \in IdTexts \cup {<<>>} : StartRegister(r, u, ref)
    \/ \E u \in IdTexts : StartGetUserData(r, u)

Next == \E r \in Slots : StartAccepted(r) \/ Step(r)

Spec == Init /\ [][Next]_vars

\* One invocation, with every request body.
ClientNumber == Amount(TRUE, Units(1000))
AmountsFor(t) ==
    IF t = "withdraw" THEN AllAmounts
    ELSE IF t \in {"watchAd", "spinResult"} THEN {NoAmount, ClientNumber}
    ELSE {NoAmount}
Rewards == {NoAmount, Amount(TRUE, Reward), ClientNumber}
BodyStats == {Row(ClientNumber.v, 0, 0, Null)}
Methods == {"OPTIONS", "GET", "POST"}
Bodies == {"invalid", "null", "object"}
BodyTypes == {"", "unknown", "watchAd"}
PrizesFor(t) ==
    IF t = "spinResult" THEN {calculateRandomSpinPrize(n) : n \in Randoms}
    ELSE {SPIN_SECTORS[1]}

StartAny(r) ==
    \/ \E t \in SignedTypes, d \in AllInitData, u \in UserIdTexts :
         \E a \in AmountsFor(t) : StartSigned(r, t, d, u, a)
    \/ \E u \in UserIdTexts, ref \in IdTexts \cup {<<>>} : StartRegister(r, u, ref)
    \/ \E u \in UserIdTexts : StartGetUserData(r, u)
    \/ \E m \in Methods, b \in Bodies, t \in BodyTypes : StartEntry(r, m, b, t)
    \/ \E t \in SignedTypes, u \in UserIdTexts, g \in AllSignatures :
         \E a \in AmountsFor(t), p \in PrizesFor(t) : StartSignedH(r, t, u, g, a, p)
    \/ \E u \in UserIdTexts, b \in BOOLEAN, a \in AllAmounts : StartWithdrawP(r, u, b, a)
    \/ \E u \in UserIdTexts, v \in UserIdTexts : StartCommissionH(r, u, v)
    \/ \E u \in UserIdTexts, a \in Rewards : StartWatchAdP(r, u, a)
    \/ \E u \in IdTexts \cup {<<>>}, has \in BOOLEAN, b \in BodyStats :
         StartUpdateStats(r, u, has, b)

NextAuth == (served = 0 /\ StartAny(1)) \/ Step(1) \/ StepH(1) \/ StepP(1) \/ StepS(1)

SpecAuth == InitAuth /\ [][NextAuth]_vars

\* The revision of part_002 serving get_stats requests, on a new store or
\* on a store whose rows were last saved on any of StoredDates.
InitStats ==
    /\ variant = "statslog"
    /\ BOT_TOKEN = ""
    /\ users \in {EmptyTable, UsedTable}
    /\ counterDay = Today
    /\ InitRest

StepL(r) == GetStatsGet(r) \/ GetStatsPost(r)

NextStats ==
    \E r \in Slots :
      \/ \E u \in IdTexts \cup {<<>>} : StartGetStats(r, u)
      \/ StepL(r)

SpecStats == InitStats /\ [][NextStats]_vars

\* ---------------------------------------------------------- properties
Done(r) == req[r].pc = "done"
Active(r) == req[r].pc # "idle"
SignedTg(r) == variant = "tg" /\ Active(r) /\ req[r].type \in SignedTypes

RECURSIVE SumPending(_, _)
SumPending(ws, i) ==
    IF ws = <<>> THEN 0
    ELSE (IF Head(ws).user_id = i /\ Head(ws).status = "Pending" THEN Head(ws).amount ELSE 0)
           + SumPending(Tail(ws), i)

\* C1: when the only two requests served are watchAd requests of the same
\* account, both answered with success, and the account started with its
\* counter at most DAILY_MAX - 2, the stored balance is the initial balance
\* plus two rewards and the stored counter the initial counter plus two.
C1_TwoWatchAdsCreditTwice ==
    \A i \in UserIds :
      ( /\ variant = "tg" /\ served = 2
        /\ i \in DOMAIN users0 /\ users0[i].ads_watched_today <= DAILY_MAX - 2
        /\ \A r \in Slots : /\ Done(r) /\ req[r].type = "watchAd"
                            /\ req[r].id = i /\ req[r].status = 200 )
      => /\ users[i].balance = users0[i].balance + 2 * Reward
         /\ users[i].ads_watched_today = users0[i].ads_watched_today + 2

\* C2: a watchAd answered with success, with no other request running or
\* started since it began, leaves the balance of its account at the balance
\* before the call plus REWARD_PER_AD and the counter at the counter before
\* the call plus one.
C2_WatchAdAddsReward ==
    \A r \in Slots :
      ( /\ variant = "tg" /\ Done(r) /\ req[r].type = "watchAd"
        /\ req[r].status = 200 /\ req[r].alone )
      => /\ users[req[r].id].balance = req[r].pre.balance + Units(REWARD_PER_AD)
         /\ users[req[r].id].ads_watched_today = req[r].pre.ads_watched_today + 1

\* C3: the step in which watchAd (spin) fetches an account whose ad (spin)
\* counter equals the ceiling ends the request with status 403 and the
\* message naming the ceiling - or with 500 when the fetch itself fails -
\* after no write, and leaves every table unchanged.
AtCeiling(r) ==
    /\ variant = "tg" /\ req[r].id \in DOMAIN users
    /\ \/ req[r].pc = "wa_get" /\ users[req[r].id].ads_watched_today = DAILY_MAX
       \/ req[r].pc = "sp_get" /\ users[req[r].id].spins_today = DAILY_MAX_SPINS
CeilingMessage(r) ==
    IF req[r].type = "watchAd" THEN "Daily ad limit (100) reached."
    ELSE "Daily spin limit (15) reached."
C3_CeilingRejected ==
    [][\A r \in Slots :
         (AtCeiling(r) /\ req'[r].pc # req[r].pc) =>
           /\ req'[r].pc = "done" /\ req'[r].writes = 0
           /\ \/ req'[r].status = 403 /\ req'[r].error = CeilingMessage(r)
              \/ req'[r].status = 500
           /\ UNCHANGED <<users, withdrawals, history>>]_vars
C3_Witness ==
    /\ Done(1) /\ req[1].type = "watchAd" /\ req[1].status = 403
    /\ req[1].user.ads_watched_today = DAILY_MAX
    /\ Done(2) /\ req[2].type = "spin" /\ req[2].status = 403
    /\ req[2].user.spins_today = DAILY_MAX_SPINS

\* C4: every account has ads_watched_today <= DAILY_MAX and
\* spins_today <= DAILY_MAX_SPINS.
C4_CountersBelowCeiling ==
    variant = "tg" =>
      \A i \in DOMAIN users : /\ users[i].ads_watched_today <= DAILY_MAX
                              /\ users[i].spins_today <= DAILY_MAX_SPINS
C4_Witness ==
    \E r \in Slots :
       /\ Done(r) /\ req[r].type = "spin" /\ req[r].status = 200
       /\ users[req[r].id].spins_today = DAILY_MAX_SPINS
       /\ users0[req[r].id].spins_today < DAILY_MAX_SPINS

\* C5: the stored balance of every account is >= 0.
C5_BalanceNonNegative ==
    variant = "tg" => \A i \in DOMAIN users : users[i].balance >= 0
C5_Witness ==
    \E r \in Slots :
       /\ Done(r) /\ req[r].type = "withdraw" /\ req[r].status = 200
       /\ users[req[r].id].balance = 0
       /\ SumPending(withdrawals, req[r].id) > 0

\* C6: for every account the amounts of its Pending withdrawal records sum
\* to at most the total ever credited to it.
C6_WithdrawalsCovered ==
    variant = "tg" => \A i \in UserIds : SumPending(withdrawals, i) <= credited[i]

\* C7: a signed request that fails authentication for one of the listed
\* reasons is answered 403 without any call to the data store, and no
\* table has changed.  (A user value that cannot be converted to a string
\* makes checkSignature throw; that is none of the listed reasons.)
AuthFails(init_data, user_id) ==
    LET data == URLSearchParams(init_data)
        user == JSONparse(Field(data, "user"))
    IN  \/ init_data = <<>>
        \/ user_id = <<>>
        \/ BOT_TOKEN = ""
        \/ Field(data, "hash") = <<>>
        \/ Field(data, "user") = <<>>
        \/ user.t = "throws"
        \/ /\ user.str
           /\ \/ Field(data, "hash") # ServerDigest(data, BOT_TOKEN)
              \/ user.t = "null"
              \/ IdToText(user) # user_id
ValidForTg(init_data, i) ==
    LET v == validateInitData(init_data, BOT_TOKEN)
    IN  v.res = "data" /\ v.user.t = "object" /\ v.user.id = i
Mismatched(r) ==
    \E i \in UserIds :
       /\ req[r].user_id # NumToText(i)
       /\ \/ variant = "tg" /\ ValidForTg(req[r].init_data, i)
          \/ variant = "hash" /\ \E t \in SignedTypes :
                req[r].signature = ClientSignature(NumToText(i), t)
C8_OtherUserRejected ==
    \A r \in Slots :
      (Active(r) /\ req[r].type \in SignedTypes /\ Mismatched(r)) =>
         /\ Done(r) /\ req[r].status \in {400, 403}
         /\ req[r].user_id # <<>> => req[r].status = 403
         /\ req[r].reads = 0 /\ req[r].writes = 0
         /\ users = users0
C8_Witness ==
    \E r \in Slots :
       /\ Done(r) /\ req[r].status = 403 /\ req[r].user_id = NumToText(2)
       /\ \/ variant = "tg" /\ req[r].init_data = AcceptedInitData(1)
          \/ variant = "hash" /\ req[r].signature = ClientSignature(NumToText(1), req[r].type)

\* C9: with BOT_TOKEN configured, initData whose user field parses and
\* whose hash is the HMAC of the fields as received (sorted by key, key=value
\* with the raw value, joined by newlines) is accepted by validateInitData.
C9_RawFieldsSignatureAccepted ==
    \A r \in Slots :
      LET data == URLSearchParams(req[r].init_data)
          user == JSONparse(Field(data, "user"))
      IN  ( /\ SignedTg(r) /\ BOT_TOKEN # ""
            /\ Field(data, "user") # <<>> /\ user.t # "throws" /\ user.str
            /\ Field(data, "hash") = TelegramDigest(data, BOT_TOKEN) )
          => validateInitData(req[r].init_data, BOT_TOKEN).res = "data"

\* C10: a signed request whose initData passes the signature check but
\* whose auth_date is more than 86400 seconds old is rejected, and no table
\* has changed.
C10_StaleInitDataRejected ==
    \A r \in Slots :
      LET data == URLSearchParams(req[r].init_data)
          user == JSONparse(Field(data, "user"))
      IN  ( /\ SignedTg(r) /\ BOT_TOKEN # "" /\ req[r].user_id # <<>>
            /\ Field(data, "user") # <<>> /\ user.t # "throws" /\ user.str
            /\ checkSignature(data, user, BOT_TOKEN)
            /\ Expired(data) )
          => /\ validateInitData(req[r].init_data, BOT_TOKEN).res = "false"
             /\ Done(r) /\ req[r].status = 403
             /\ users = users0 /\ withdrawals = <<>>

\* C11: a signed request that fails authentication gets the response (status
\* and error string) that the same request gets when it carries no init_data
\* at all: the caller cannot tell which check failed.
C11_AuthFailuresIndistinguishable ==
    \A r \in Slots :
      ( /\ SignedTg(r) /\ Done(r) /\ req[r].user_id # <<>>
        /\ AuthFails(req[r].init_data, req[r].user_id) ) =>
         LET ref == securityPreCheck(<<>>, req[r].user_id, BOT_TOKEN)
         IN  req[r].status = ref.st /\ req[r].error = ref.err

\* C12: a withdraw request to which a validation reason applies (amount not
\* a number or <= 0, amount below MIN_WITHDRAW_AMOUNT, amount above the
\* balance that is stored, no row for the user) never goes on to a write:
\* the step that examines it ends it with an error.  The step that ends a
\* withdraw request with status 400, 403 or 404 leaves the table of users
\* and the table of withdrawals unchanged, and the request has issued no
\* write.
Ends(r) == req'[r].pc = "done" /\ (req[r].pc # "done" \/ served' # served)
Refused(r) ==
    \/ req[r].id \notin DOMAIN users
    \/ req[r].amount.v < Units(MIN_WITHDRAW_AMOUNT)
    \/ req[r].amount.v > users[req[r].id].balance
C12_RejectedWithdrawChangesNothing ==
    [][\A r \in Slots :
         (variant = "tg" /\ req'[r].type = "withdraw") =>
           /\ (Ends(r) /\ req'[r].status \in {400, 403, 404}) =>
                 /\ UNCHANGED <<users, withdrawals>>
                 /\ req'[r].writes = 0
           /\ req'[r].pc \in {"wd_get", "wd_patch", "wd_post"} =>
                 req'[r].amount.num /\ req'[r].amount.v > 0
           /\ (req[r].pc = "wd_get" /\ req'[r].pc # "wd_get" /\ Refused(r)) =>
                 Ends(r) /\ req'[r].status \in {403, 404, 500}]_vars
C12_Witness ==
    /\ SignedTg(1) /\ Done(1) /\ req[1].type = "withdraw" /\ req[1].status = 403
    /\ req[1].error = "Minimum withdrawal is 400 SHIB."
    /\ req[1].amount.v > 0 /\ req[1].amount.v <= req[1].user.balance
    /\ users = users0 /\ withdrawals = <<>>

\* C13: a withdraw of exactly the balance the account holds when the request
\* begins, at least MIN_WITHDRAW_AMOUNT, with no other request running or
\* started since and no failed store call (no status 500), is answered with
\* success, the stored balance is 0 and the withdrawals of that account are
\* exactly one record, Pending, with that id and that amount.
RecordsOf(i) == SelectSeq(withdrawals, LAMBDA w : w.user_id = i)
FullWithdraw(r) ==
    /\ variant = "tg" /\ Done(r) /\ req[r].type = "withdraw" /\ req[r].alone
    /\ req[r].amount.num /\ req[r].amount.v = req[r].pre.balance
    /\ req[r].amount.v >= Units(MIN_WITHDRAW_AMOUNT)
    /\ req[r].status # 500
C13_WithdrawWholeBalance ==
    \A r \in Slots :
      FullWithdraw(r) =>
         /\ req[r].status = 200
         /\ users[req[r].id].balance = 0
         /\ RecordsOf(req[r].id) =
              << [user_id |-> req[r].id, amount |-> req[r].amount.v, status |-> "Pending"] >>
C13_Witness ==
    \E r \in Slots :
       /\ FullWithdraw(r) /\ req[r].status = 200 /\ req[r].writes = 2
       /\ users0[req[r].id].balance = Units(MIN_WITHDRAW_AMOUNT + 5)
       /\ users[req[r].id].balance = 0 /\ Len(withdrawals) = 1

\* C14: an authenticated withdraw for an account that has a row, whose
\* amount is a number above 0 and below MIN_WITHDRAW_AMOUNT, answered
\* without a store failure, gets status 400.
C14_BelowMinimumIs400 ==
    \A r \in Slots :
      ( /\ SignedTg(r) /\ Done(r) /\ req[r].type = "withdraw"
        /\ ~AuthFails(req[r].init_data, req[r].user_id)
        /\ req[r].id \in DOMAIN users
        /\ req[r].amount.num /\ req[r].amount.v > 0
        /\ req[r].amount.v < Units(MIN_WITHDRAW_AMOUNT)
        /\ req[r].status # 500 )
      => req[r].status = 400

\* C15: in every revision, a withdraw request whose amount is a number that
\* is zero or negative does not end with success and leaves the table of
\* users as it was at every step; no withdraw request leaves a balance above its initial value.
C15_NonPositiveWithdrawRejected ==
    \A r \in Slots :
      (Active(r) /\ req[r].type = "withdraw") =>
         /\ (req[r].amount.num /\ req[r].amount.v <= 0) =>
               /\ Quiet(r) => req[r].status # 200
               /\ users = users0
         /\ \A i \in DOMAIN users : users[i].balance <= users0[i].balance

\* C16: when the one request that has been served ended with an error
\* response, the table of users is as it was before the request, and no
\* account is debited without a withdrawal record.
C16_ErrorLeavesStoreUntouched ==
    (variant = "tg" /\ served = 1 /\ Done(1) /\ req[1].status # 200) =>
       /\ users = users0
       /\ \A i \in DOMAIN users0 :
            users[i].balance < users0[i].balance => SumPending(withdrawals, i) > 0

\* C17: in the hash revision, a watchAd, spinResult or commission request
\* whose write of the balance was applied is answered with success, also
\* when the insert of the history record that follows has failed.
C17_HistoryFailureStillSuccess ==
    \A r \in Slots :
      ( /\ variant = "hash" /\ Done(r) /\ served = 1
        /\ req[r].type \in {"watchAd", "spinResult", "commission"}
        /\ req[r].id \in DOMAIN users
        /\ users[req[r].id].balance # users0[req[r].id].balance )
      => /\ req[r].status = 200
         /\ users[req[r].id].balance = req[r].newBalance

\* C18: when the one request served is a watchAd of account A answered with
\* success, and A's row names a referrer B that has a row and is not A, then
\* B's balance is its initial balance plus REWARD_PER_AD *
\* REFERRAL_COMMISSION_RATE and commission_history holds exactly one record,
\* which links referrer B and referee A.
Referred(a) ==
    /\ a \in DOMAIN users0 /\ users0[a].ref_by # Null
    /\ users0[a].ref_by # a /\ users0[a].ref_by \in DOMAIN users0
C18_CommissionCreditedAndRecorded ==
    ( /\ variant = "tg" /\ served = 1 /\ Done(1) /\ req[1].type = "watchAd"
      /\ req[1].status = 200 /\ Referred(req[1].id) ) =>
       LET A == req[1].id
           B == users0[A].ref_by
       IN  /\ users[B].balance = users0[B].balance + (Units(REWARD_PER_AD) * RATE_NUM) \div RATE_DEN
           /\ Len(history["commission_history"]) = 1
           /\ history["commission_history"][1].referrer_id = B
           /\ history["commission_history"][1].referee_id = A

\* C19: the step in which watchAd looks up a referrer that has no row ends
\* the request - with success unless the lookup itself fails - and changes no
\* row and creates none; a request that ran alone has then advanced its own
\* account by REWARD_PER_AD and one ad, with the single write that a watchAd
\* of an account without referrer issues.
MissingReferrer(r) ==
    /\ variant = "tg" /\ req[r].pc = "wa_refget"
    /\ req[r].user.ref_by \notin DOMAIN users
C19_MissingReferrerIgnored ==
    [][\A r \in Slots :
         (MissingReferrer(r) /\ req'[r].pc # req[r].pc) =>
           /\ UNCHANGED users
           /\ req'[r].pc = "done" /\ req'[r].status \in {200, 500}
           /\ (req'[r].status = 200 /\ req'[r].alone) =>
                 /\ req'[r].writes = 1
                 /\ users'[req[r].id].balance = req[r].pre.balance + Units(REWARD_PER_AD)
                 /\ users'[req[r].id].ads_watched_today = req[r].pre.ads_watched_today + 1]_vars
C19_Witness ==
    \E r \in Slots :
       /\ variant = "tg" /\ Done(r) /\ req[r].type = "watchAd" /\ req[r].status = 200
       /\ req[r].alone /\ req[r].reads = 2 /\ req[r].writes = 1
       /\ req[r].user.ref_by # Null /\ req[r].user.ref_by \notin DOMAIN users
       /\ users[req[r].id].balance = Units(REWARD_PER_AD)

\* C20: a step that changes the balance of an account is taken by a request
\* that names this account as its own, or by the referrer PATCH of a watchAd
\* whose user row carries this account as its non-null ref_by: no spin,
\* spinResult, withdraw, register or getUserData request changes the balance
\* of an account other than its own.
ChangesBalance(i) ==
    i \in DOMAIN users /\ i \in DOMAIN users' /\ users'[i].balance # users[i].balance
C20_OnlyWatchAdPaysReferrer ==
    [][variant = "tg" =>
         \A i \in UserIds :
           ChangesBalance(i) =>
             \E r \in Slots :
                /\ req'[r].pc # req[r].pc
                /\ \/ req[r].id = i /\ req[r].pc # "wa_refpatch"
                   \/ /\ req[r].type = "watchAd" /\ req[r].pc = "wa_refpatch"
                      /\ req[r].user.ref_by = i /\ i # Null]_vars
C20_Witness ==
    /\ variant = "tg"
    /\ \E r, q \in Slots :
         /\ Done(r) /\ req[r].type = "withdraw" /\ req[r].status = 200
         /\ Done(q) /\ req[q].type = "watchAd" /\ req[q].status = 200
         /\ req[q].user.ref_by = req[r].id /\ req[q].id # req[r].id
         /\ users[req[r].id].balance # users0[req[r].id].balance

\* C21: when the counters of the store were last written on an earlier UTC
\* day, an authenticated watchAd (spin) for an account whose stored ad (spin)
\* counter stands at the ceiling, served without a store failure, is answered
\* with success and the counter stored afterwards is 1.
Authenticated(r) == SignedTg(r) /\ ~AuthFails(req[r].init_data, req[r].user_id)
C21_StaleCounterCountsAsZero ==
    \A r \in Slots :
      ( /\ Authenticated(r) /\ Done(r) /\ served = 1 /\ counterDay = Yesterday
        /\ req[r].id \in DOMAIN users0 /\ req[r].status # 500 )
      => /\ ( /\ req[r].type = "watchAd"
              /\ users0[req[r].id].ads_watched_today = DAILY_MAX )
            => /\ req[r].status = 200
               /\ users[req[r].id].ads_watched_today = 1
         /\ ( /\ req[r].type = "spin"
              /\ users0[req[r].id].spins_today = DAILY_MAX_SPINS )
            => /\ req[r].status = 200
               /\ users[req[r].id].spins_today = 1

\* C22: no step changes the ref_by of a row or removes a row; a step of a
\* register request changes no row that exists; a row that appears is the
\* row of a register request for that id, with balance and counters 0 and the
\* ref_by of that request.
RefOf(r) == IF req[r].ref_by # <<>> THEN parseInt(req[r].ref_by) ELSE Null
Sectors == {SPIN_SECTORS[i] : i \in DOMAIN SPIN_SECTORS}
C23_PrizeFromSectorTable ==
    /\ \A i \in DOMAIN SPIN_SECTORS : \E n \in Randoms : RandomIndex(n) + 1 = i
    /\ \A r \in Slots :
         ( /\ variant \in {"tg", "hash"} /\ Active(r) /\ req[r].type = "spinResult"
           /\ req[r].id \in DOMAIN users ) =>
            LET delta == users[req[r].id].balance - users0[req[r].id].balance
            IN  /\ delta # 0 => (delta = Units(req[r].prize) /\ req[r].prize \in Sectors)
                /\ (Done(r) /\ req[r].status = 200) => delta = Units(req[r].prize)
C23_Witness ==
    \E r \in Slots :
       /\ variant = "hash" /\ Done(r) /\ req[r].type = "spinResult" /\ req[r].status = 200
       /\ req[r].amount = ClientNumber /\ req[r].prize = SPIN_SECTORS[4]
       /\ users[req[r].id].balance = users0[req[r].id].balance + Units(SPIN_SECTORS[4])

\* C24: an authenticated spinResult for an account that has a row, served
\* without a store failure, is answered with success and the stored balance
\* is the initial balance plus a prize of SPIN_SECTORS.
C24_SpinResultCreditsPrize ==
    \A r \in Slots :
      ( /\ Authenticated(r) /\ Done(r) /\ served = 1 /\ req[r].type = "spinResult"
        /\ req[r].id \in DOMAIN users
        /\ req[r].error # "Spin result failed" )
      => /\ req[r].status = 200
         /\ users[req[r].id].balance - users0[req[r].id].balance \in {Units(p) : p \in Sectors}

\* C25: once the first request has ended with success, the table of its
\* action holds exactly one record of its user: ads_history for watchAd,
\* spin_requests for spin, spin_results for spinResult, withdrawals for
\* withdraw.
ActionRecords(t, i) ==
    IF t = "withdraw" THEN Len(RecordsOf(i))
    ELSE LET tab == IF t = "watchAd" THEN "ads_history"
                    ELSE IF t = "spin" THEN "spin_requests" ELSE "spin_results"
         IN  Len(SelectSeq(history[tab], LAMBDA h : h.user_id = i))
C25_SuccessAppendsOneRecord ==
    \A r \in Slots :
      (SignedTg(r) /\ Done(r) /\ served = 1 /\ req[r].status = 200)
      => ActionRecords(req[r].type, req[r].id) = 1

\* C26: in every revision an accepted watchAd adds the fixed reward to the
\* balance, whatever reward field the body carries.
C26_WatchAdRewardFixed ==
    \A r \in Slots :
      (Done(r) /\ req[r].type = "watchAd" /\ req[r].status = 200 /\ req[r].id \in DOMAIN users)
      => users[req[r].id].balance = users0[req[r].id].balance + Reward

\* C27: the stored balance of an account differs from its initial balance
\* by nothing, by the ad reward, by a prize of SPIN_SECTORS, by the
\* commission or by a withdrawal of at least the minimum and at most the
\* balance, and each daily counter moves by one step at most: no field is
\* set to a value of the body.
ServerDeltas == {0, Reward, Commission} \cup {Units(p) : p \in Sectors}
ValidDebits(b) ==
    {0 - a.v : a \in {x \in AllAmounts : x.num /\ x.v >= Units(MIN_WITHDRAW_AMOUNT) /\ x.v <= b}}
RowAtStart(i) == IF i \in DOMAIN users0 THEN users0[i] ELSE NoRow
C27_NoFieldSetFromBody ==
    \A i \in DOMAIN users :
      /\ users[i].balance - RowAtStart(i).balance
           \in ServerDeltas \cup ValidDebits(RowAtStart(i).balance)
      /\ users[i].ads_watched_today - RowAtStart(i).ads_watched_today \in {0, 1}
      /\ users[i].spins_today - RowAtStart(i).spins_today \in {0, 1}

\* C28: no step of a getUserData request writes to the store: account rows,
\* withdrawal records and history tables are unchanged by it, for an
\* existing and for an unknown id; and the balance and counters of a
\* successful answer for an existing account are the stored ones.
SameStats(a, b) ==
    /\ a.balance = b.balance
    /\ a.ads_watched_today = b.ads_watched_today
    /\ a.spins_today = b.spins_today
C28_GetUserDataReadOnly ==
    [][\A r \in Slots :
         (variant = "tg" /\ req'[r].type = "getUserData" /\ req'[r].pc # req[r].pc)
         => /\ UNCHANGED <<users, withdrawals, history>>
            /\ req'[r].writes = 0
            /\ (req'[r].pc = "done" /\ req'[r].status = 200 /\ req'[r].id \in DOMAIN users)
               => SameStats(req'[r].user, users'[req'[r].id])]_vars
C28_Witness ==
    /\ variant = "tg" /\ Done(1) /\ req[1].type = "getUserData" /\ req[1].status = 200
    /\ req[1].id \in DOMAIN users /\ req[1].reads = 3 /\ req[1].writes = 0
    /\ req[1].user.balance = users[req[1].id].balance
    /\ req[1].user.ads_watched_today > 0
    /\ users = users0

\* C29: a getUserData, or an authenticated watchAd, spin, spinResult or
\* withdraw, that names an id with no account row is answered 404, unless
\* the body is refused as malformed (400) or a store call fails (500), and
\* the account rows are unchanged.
PerUserAction(r) ==
    \/ variant = "tg" /\ Active(r) /\ req[r].type = "getUserData"
    \/ Authenticated(r)
C29_UnknownUserIs404 ==
    \A r \in Slots :
      ( /\ PerUserAction(r) /\ Done(r) /\ served = 1
        /\ req[r].user_id # <<>> /\ req[r].id \notin DOMAIN users0 )
      => /\ req[r].status \in {404, 400, 500}
         /\ users = users0

\* C30: an authenticated action that ended with an error after its first
\* write to the store failed has run its fetch step again before
\* reporting the error: it has issued two reads at least.
C30_FailedWriteIsRetried ==
    \A r \in Slots :
      ( /\ Authenticated(r) /\ Done(r) /\ served = 1
        /\ req[r].status = 500 /\ req[r].writes = 1 )
      => req[r].reads >= 2

\* C31: at the entry point of the Telegram revision an OPTIONS request is
\* answered 200 with no store call, whatever its body; any other method
\* but POST is answered 405; a POST whose body does not parse, is null or
\* has no type is answered 400, and so is a POST of an unknown type; none
\* of them changes the store.
StoreAtStart ==
    /\ users = users0 /\ withdrawals = <<>>
    /\ \A t \in Tables : history[t] = <<>>
C32_WithdrawCheckOrder ==
    \A r \in Slots :
      ( /\ Authenticated(r) /\ Done(r) /\ served = 1 /\ req[r].type = "withdraw"
        /\ req[r].error # "Withdrawal failed" )
      => LET a == req[r].amount
             id == req[r].id IN
         IF ~a.num \/ a.v <= 0
           THEN /\ req[r].status = 400 /\ req[r].error = "Invalid withdrawal amount."
                /\ req[r].reads = 0 /\ req[r].writes = 0
         ELSE IF id \notin DOMAIN users0
           THEN req[r].status = 404 /\ req[r].error = "User not found."
         ELSE IF a.v < Units(MIN_WITHDRAW_AMOUNT)
           THEN req[r].error = "Minimum withdrawal is 400 SHIB." /\ req[r].writes = 0
         ELSE IF a.v > users0[id].balance
           THEN req[r].error = "Insufficient balance." /\ req[r].writes = 0
         ELSE req[r].status = 200
C32_Witness ==
    /\ Authenticated(1) /\ Done(1) /\ req[1].type = "withdraw"
    /\ req[1].amount.num /\ req[1].amount.v > 0
    /\ req[1].id \in DOMAIN users0
    /\ req[1].amount.v < Units(MIN_WITHDRAW_AMOUNT)
    /\ req[1].amount.v > users0[req[1].id].balance
    /\ req[1].error = "Minimum withdrawal is 400 SHIB."

\* C33: a get_stats for an existing row last saved on another UTC day than
\* now saves the row with both counters 0, the balance as it was and
\* last_update now, and answers with those counters; a get_stats for a row
\* saved on the UTC day of now answers with the stored row and writes
\* nothing, so a second get_stats of the day issues no write.
OnDayOfNow(id) ==
    /\ last_update[id].year = NowDate.year
    /\ last_update[id].month = NowDate.month
    /\ last_update[id].date = NowDate.date
C33_DailyResetOnceADay ==
    [][\A r \in Slots :
         LET id == req[r].id IN
         /\ ( /\ variant = "statslog" /\ req[r].pc = "gs_get" /\ req'[r].pc # "gs_get"
              /\ req'[r].status # 500 /\ id \in DOMAIN users )
            => /\ UNCHANGED <<users, last_update>>
               /\ req'[r].user.balance = users[id].balance
               /\ IF OnDayOfNow(id)
                    THEN /\ req'[r].pc = "done" /\ req'[r].status = 200
                         /\ req'[r].writes = 0
                         /\ SameStats(req'[r].user, users[id])
                  ELSE /\ req'[r].pc = "gs_post"
                       /\ req'[r].user.ads_watched_today = 0
                       /\ req'[r].user.spins_today = 0
         /\ ( /\ variant = "statslog" /\ req[r].pc = "gs_post" /\ req'[r].pc = "done"
              /\ req'[r].status = 200 /\ id \in DOMAIN users )
            => /\ users'[id].ads_watched_today = 0 /\ users'[id].spins_today = 0
               /\ users'[id].balance = users[id].balance
               /\ SameStats(req'[r].user, users'[id])
               /\ last_update'[id] = NowDate
               /\ \A i \in DOMAIN users \ {id} :
                    users'[i] = users[i] /\ last_update'[i] = last_update[i]]_vars
C33_Witness ==
    /\ variant = "statslog" /\ served = 2 /\ Done(1) /\ Done(2)
    /\ req[1].id = req[2].id /\ req[1].id \in DOMAIN users0
    /\ req[1].type = "get_stats" /\ req[2].type = "get_stats"
    /\ req[1].status = 200 /\ req[2].status = 200
    /\ req[1].writes + req[2].writes = 1
    /\ users0[req[1].id].ads_watched_today > 0
    /\ users[req[1].id].ads_watched_today = 0 /\ users[req[1].id].spins_today = 0
    /\ users[req[1].id].balance = users0[req[1].id].balance
    /\ req[2].user.ads_watched_today = 0
    /\ last_update[req[1].id] = NowDate

\* C34: in the hash revision every user has at most as many spinResult
\* requests answered with success, each leaving its spin_results record, as
\* spin requests answered with success, each leaving its spin_requests
\* record.
RecordsIn(tab, i) == Len(SelectSeq(history[tab], LAMBDA h : h.user_id = i))
C34_SpinResultNeedsSpin ==
    variant = "hash" =>
      \A i \in UserIds : RecordsIn("spin_results", i) <= RecordsIn("spin_requests", i)

\* C35: for every account, the watchAd requests answered with success are
\* no more than the steps by which its stored ads_watched_today has risen,
\* whatever the interleaving, and the counter never passes DAILY_MAX.
AdSuccesses(i) ==
    Cardinality({r \in Slots : /\ SignedTg(r) /\ Done(r) /\ req[r].type = "watchAd"
                               /\ req[r].status = 200 /\ req[r].id = i})
C35_AdSuccessesCounted ==
    served <= Cardinality(Slots) =>
      \A i \in DOMAIN users0 :
        /\ AdSuccesses(i) <= users[i].ads_watched_today - users0[i].ads_watched_today
        /\ users[i].ads_watched_today <= DAILY_MAX

\* C36: no account row names its own id as ref_by.
C36_NoSelfReferral ==
    variant = "tg" => \A i \in DOMAIN users : users[i].ref_by # i

\* C37: in the hash revision the balance of an account B has risen, by a
\* commission request, by no more than the commission of the accepted
\* watchAd requests, each leaving its ads_history record, of the accounts
\* whose ref_by is B.
AdsOfReferees(B) ==
    Len(SelectSeq(history["ads_history"],
                  LAMBDA h : h.user_id \in DOMAIN users /\ users[h.user_id].ref_by = B))
C37_CommissionBackedByAds ==
    \A r \in Slots :
      (variant = "hash" /\ served = 1 /\ req[r].type = "commission")
      => \A B \in DOMAIN users0 :
           users[B].balance - users0[B].balance <= Commission * AdsOfReferees(B)

\* C38: a step of a request of the Telegram revision for user U leaves every
\* account row but U's as it is, but that a watchAd may change the balance,
\* and the balance only, of the account that U's row names as ref_by; it
\* adds no row but U's.
C38_OnlyOwnRowAndReferrer ==
    [][\A r \in Slots :
         (variant = "tg" /\ req'[r].pc # req[r].pc /\ ~Quiet(r))
         => LET U == req[r].id
                ref == IF U \in DOMAIN users THEN users[U].ref_by ELSE Null IN
            /\ DOMAIN users \subseteq DOMAIN users'
            /\ DOMAIN users' \subseteq DOMAIN users \cup {U}
            /\ \A i \in DOMAIN users \ {U} :
                 \/ users'[i] = users[i]
                 \/ /\ req[r].type = "watchAd" /\ i = ref
                    /\ users'[i] = [users[i] EXCEPT !.balance = users'[i].balance]]_vars
C38_Witness ==
    /\ SignedTg(1) /\ Done(1) /\ req[1].type = "watchAd" /\ req[1].status = 200
    /\ req[1].id = 2 /\ users0 = UsedTable
    /\ users[2].ads_watched_today = users0[2].ads_watched_today + 1
    /\ users[1] = [users0[1] EXCEPT !.balance = @ + Commission]

\* C39: no request of the Telegram revision ends without a response: the
\* entry point and its handler never stop on an exception that no catch
\* block answers.
C39_EveryRequestAnswered ==
    \A r \in Slots : (variant = "tg" /\ Active(r)) => req[r].pc # "crashed"

====
